---- MODULE Spec2Model ----
(***************************************************************************)
(* Model of the two-tier cache of F1-Visualizer:                           *)
(*   f1_visualization/cache/manager.py   (CacheManager)                    *)
(* The memory tier is a dict plus an access-order list, the disk tier one  *)
(* file per key under cache_dir.  Spec runs the public operations one at a *)
(* time; SpecThreads interleaves the steps of get/set/invalidate of        *)
(* several threads on one manager.                                         *)
(***************************************************************************)
EXTENDS Integers, Sequences, FiniteSets, TLC

\* ------------------------------------------------------------------ bounds
\* Latest hour the wall clock reaches.
MaxTime == 1
\* Loads submitted to the executor in a run.
MaxLoads == 2

\* ------------------------------------------------------------- constants
\* disk_ttl_hours, default 24: the clock of the model counts days.
TtlDays == 1
\* cache_settings.memory_size, the default capacity of the memory tier.
DefaultMemorySize == 256
\* AsyncDataLoader(max_workers=2)
MaxWorkers == 2

\* ------------------------------------------------------------- vocabulary
\* Cache keys are strings; a string is a sequence of characters so that the
\* substring and glob tests of invalidate_pattern can be computed.
Keys == { <<"a", "1">>, <<"a", "2">>, <<"s">> }
NoKey == << >>
\* Two tables with the same columns and rows: "plain" has the default
\* RangeIndex, "indexed" a custom index.
Values == { "plain", "indexed" }
\* Contents a cache file can have: a serialized table, a truncated or
\* garbage byte string, or zero bytes.
Corrupt == { "truncated", "empty" }
Formats == { "pickle", "parquet" }
\* The memory_size values managers are constructed with.
MemorySizes == { 1, 2 }
\* The keys callers persist: set is called with disk=True for these only.
DiskKeys == { <<"a", "1">>, <<"a", "2">> }
Threads == { "t1", "t2" }

VARIABLES
    memory_size,          \* self._memory_size
    disk_format,          \* self._disk_format
    memory_cache,         \* self._memory_cache: key -> value
    memory_access_order,  \* self._memory_access_order: list of keys
    disk,                 \* files of cache_dir: key -> [content, mtime]
    now,                  \* wall clock, in days
    last,                 \* the call that ran last and what it returned
    touched,              \* keys by latest set or get hit, oldest first
    latest,               \* key -> the value of the most recent set(key, .)
    history,              \* whether touched and latest are recorded in this run
    pc,                   \* per thread: position in the running call
    loc,                  \* per thread: locals of the running call
    loader_results,       \* AsyncDataLoader._results: key -> LoadingResult
    loader_futures,       \* AsyncDataLoader._futures: key -> submitted load
    loader_tasks,         \* loads submitted to the executor, in order
    executor_shutdown,    \* the executor refuses new loads
    cleared               \* keys cleared and not started since

loader == << loader_results, loader_futures, loader_tasks, executor_shutdown,
            cleared >>

vars == << memory_size, disk_format, memory_cache, memory_access_order, disk,
           now, last, touched, latest, history, pc, loc, loader >>

\* ---------------------------------------------------------------- helpers
Range(s) == { s[i] : i \in 1..Len(s) }

NoDup(s) == \A i, j \in 1..Len(s) : i # j => s[i] # s[j]

\* list.remove(x): the first occurrence only.
ListRemove(s, x) ==
    LET i == CHOOSE i \in 1..Len(s) : s[i] = x /\ \A j \in 1..(i-1) : s[j] # x
    IN  SubSeq(s, 1, i-1) \o SubSeq(s, i+1, Len(s))

\* dict.pop(key, None)
DictPop(d, k) == [x \in (DOMAIN d) \ {k} |-> d[x]]

\* d[key] = value
DictSet(d, k, v) == [x \in (DOMAIN d) \cup {k} |-> IF x = k THEN v ELSE d[x]]

\* "pattern in k" on strings
Contains(p, s) ==
    \E i \in 0..(Len(s) - Len(p)) : SubSeq(s, i+1, i+Len(p)) = p

\* The order s without the keys outside S.
Restrict(s, S) == SelectSeq(s, LAMBDA x : x \in S)

\* Move k to the most-recent end of a recency record.
Bump(s, k) == Append(SelectSeq(s, LAMBDA x : x # k), k)

EmptyDict == [x \in {} |-> "plain"]

\* ------------------------------------------------------------ exceptions
\* The classes an exception is an instance of.
Bases(exc) ==
    CASE exc = "UnpicklingError" -> { "UnpicklingError", "PickleError", "Exception" }
      [] exc = "PicklingError"   -> { "PicklingError", "PickleError", "Exception" }
      [] exc = "ArrowInvalid"    -> { "ArrowInvalid", "ValueError", "Exception" }
      [] OTHER                   -> { exc, "Exception" }

\* except (OSError, pickle.PickleError, pd.errors.EmptyDataError) of get
ReadHandlers == { "OSError", "PickleError", "EmptyDataError" }

\* except (OSError, pickle.PickleError) of set
WriteHandlers == { "OSError", "PickleError" }

Caught(exc, handlers) == Bases(exc) \cap handlers # {}

\* --------------------------------------------------------- serialization
\* What the write of set puts in the file: to_parquet(index=False) drops the
\* index of the table, pickle.dump keeps the object as it is.
Encode(fmt, v) == IF fmt = "parquet" THEN "plain" ELSE v

\* What read_parquet / pickle.load raise on a file's content ("none": the
\* read succeeds).  A truncated pickle raises UnpicklingError and a zero-byte
\* one EOFError; pyarrow raises ArrowInvalid for both.
ReadError(fmt, content) ==
    IF content \notin Corrupt THEN "none"
    ELSE IF fmt = "parquet" THEN "ArrowInvalid"
    ELSE IF content = "empty" THEN "EOFError"
    ELSE "UnpicklingError"

\* The table read_parquet / pickle.load return for a readable file.
Decode(fmt, content) == content

\* The unreadable contents that read differently under the format: pyarrow
\* raises the same error for both.
CorruptKinds(fmt) == IF fmt = "parquet" THEN { "truncated" } ELSE Corrupt

\* Outcomes of the write of set: it succeeds, open() fails (OSError), or the
\* serializer rejects the value (pickle: PicklingError or TypeError, depending
\* on the object; parquet: ArrowInvalid).
WriteFaults(fmt) ==
    IF fmt = "parquet" THEN { "none", "OSError", "ArrowInvalid" }
    ELSE { "none", "OSError", "PicklingError", "TypeError" }

\* The file of k after the write of set(k, v) ends with `fault`.  With pickle
\* the file is opened "wb" before pickle.dump runs, so a value pickle rejects
\* leaves a zero-byte file; to_parquet converts the table before it opens the
\* file.
WriteFile(d, fmt, k, v, fault, t) ==
    CASE fault = "none" ->
            DictSet(d, k, [content |-> Encode(fmt, v), mtime |-> t])
      [] fault \in { "PicklingError", "TypeError" } ->
            DictSet(d, k, [content |-> "empty", mtime |-> t])
      [] OTHER -> d

\* ------------------------------------------------------------ disk tier
\* _get_disk_path: the file name of a key.
Ext(fmt) == IF fmt = "parquet" THEN << ".", "p", "a", "r", "q", "u", "e", "t" >>
            ELSE << ".", "p", "k", "l" >>

get_disk_path(fmt, k) == k \o Ext(fmt)

\* _is_disk_cache_valid with the age compared by <=.
is_disk_cache_valid_inclusive(d, k, t) ==
    IF k \notin DOMAIN d THEN FALSE
    ELSE LET age == t - d[k].mtime IN age <= TtlDays

\* _is_disk_cache_valid
is_disk_cache_valid(d, k, t) ==
    IF k \notin DOMAIN d THEN FALSE
    ELSE LET age == t - d[k].mtime IN age < TtlDays

\* ---------------------------------------------------------- memory tier
Mem(c, o) == [cache |-> c, order |-> o]

\* _evict_lru popping the newest end of the access order.
evict_mru(m) ==
    IF m.order # << >>
    THEN Mem(DictPop(m.cache, m.order[Len(m.order)]),
             SubSeq(m.order, 1, Len(m.order) - 1))
    ELSE m

\* _evict_lru
evict_lru(m) ==
    IF m.order # << >>
    THEN Mem(DictPop(m.cache, Head(m.order)), Tail(m.order))
    ELSE m

\* The while loop of _set_memory.  With nothing left in the access order and
\* the dict still at capacity the loop would not end: the result is then
\* returned as it stands and EvictLoopHangs says so.
RECURSIVE EvictWhileFull(_)
EvictWhileFull(m) ==
    IF Cardinality(DOMAIN m.cache) >= memory_size /\ m.order # << >>
    THEN EvictWhileFull(evict_lru(m))
    ELSE m

EvictLoopHangs(m) ==
    Cardinality(DOMAIN EvictWhileFull(m).cache) >= memory_size

\* _set_memory without the removal of the key's old place in the order.
set_memory_append_only(m, key, data) ==
    LET e == EvictWhileFull(m)
    IN  Mem(DictSet(e.cache, key, data), Append(e.order, key))

\* _set_memory
set_memory(m, key, data) ==
    LET e == EvictWhileFull(m)
    IN  Mem(DictSet(e.cache, key, data),
            Append(IF key \in Range(e.order) THEN ListRemove(e.order, key)
                   ELSE e.order, key))

\* The memory-hit branch of get: move the key to the end of the order.
touch_memory(m, key) ==
    Mem(m.cache,
        Append(IF key \in Range(m.order) THEN ListRemove(m.order, key)
               ELSE m.order, key))

\* The memory part of invalidate.
invalidate_memory(m, key) ==
    Mem(DictPop(m.cache, key),
        IF key \in Range(m.order) THEN ListRemove(m.order, key) ELSE m.order)

\* -------------------------------------------------------- cache manager
Outcome(m, d, r, x) == [mem |-> m, disk |-> d, ret |-> r, raised |-> x]

\* get(key): the memory tier, the disk tier and what the call returns ("None"
\* is Python's None) or raises.  rf is the outcome of opening the file:
\* "none", or the OSError of a failed open.
get(m, d, fmt, t, key, rf) ==
    IF key \in DOMAIN m.cache
    THEN Outcome(touch_memory(m, key), d, m.cache[key], FALSE)
    ELSE IF is_disk_cache_valid(d, key, t)
    THEN LET exc == IF rf # "none" THEN rf ELSE ReadError(fmt, d[key].content)
             data == Decode(fmt, d[key].content)
         IN  IF exc = "none"
             THEN IF EvictLoopHangs(m)
                  THEN Outcome(m, d, "hang", FALSE)
                  ELSE Outcome(set_memory(m, key, data), d, data, FALSE)
             ELSE IF Caught(exc, ReadHandlers)
             THEN Outcome(m, DictPop(d, key), "None", FALSE)
             ELSE Outcome(m, d, exc, TRUE)
    ELSE Outcome(m, d, "None", FALSE)

\* set that writes the file whatever the disk flag says.
set_ignoring_flag(m, d, fmt, t, key, data, dsk, fault) ==
    LET m2 == set_memory(m, key, data)
    IN  IF fault = "none" \/ Caught(fault, WriteHandlers)
        THEN Outcome(m2, WriteFile(d, fmt, key, data, fault, t), "None", FALSE)
        ELSE Outcome(m2, WriteFile(d, fmt, key, data, fault, t), fault, TRUE)

\* set(key, data, disk): fault is the outcome of the disk write.
set(m, d, fmt, t, key, data, dsk, fault) ==
    IF EvictLoopHangs(m)
    THEN Outcome(m, d, "hang", FALSE)
    ELSE LET m2 == set_memory(m, key, data)
         IN  IF ~dsk
             THEN Outcome(m2, d, "None", FALSE)
             ELSE IF fault = "none" \/ Caught(fault, WriteHandlers)
             THEN Outcome(m2, WriteFile(d, fmt, key, data, fault, t), "None", FALSE)
             ELSE Outcome(m2, WriteFile(d, fmt, key, data, fault, t), fault, TRUE)

\* invalidate that leaves the file of the key.
invalidate_memory_only(m, d, key) ==
    Outcome(invalidate_memory(m, key), d, "None", FALSE)

\* invalidate(key)
invalidate(m, d, key) ==
    Outcome(invalidate_memory(m, key), DictPop(d, key), "None", FALSE)

\* The loop over keys_to_remove of invalidate_pattern.
RECURSIVE RemoveKeys(_, _)
RemoveKeys(m, S) ==
    IF S = {} THEN m
    ELSE LET k == CHOOSE x \in S : TRUE
         IN  RemoveKeys(invalidate_memory(m, k), S \ {k})

\* Path.glob("*" + pattern + "*") on a file name, for a pattern without glob
\* metacharacters: the name contains the pattern.
GlobMatch(p, name) == Contains(p, name)

\* invalidate_pattern(pattern): the tiers after the call and the count it
\* returns.
invalidate_pattern(m, d, fmt, p) ==
    LET keys_to_remove == { k \in DOMAIN m.cache : Contains(p, k) }
        paths == { k \in DOMAIN d : GlobMatch(p, get_disk_path(fmt, k)) }
    IN  [mem   |-> RemoveKeys(m, keys_to_remove),
         disk  |-> [k \in (DOMAIN d) \ paths |-> d[k]],
         count |-> Cardinality(keys_to_remove) + Cardinality(paths)]

\* clear() that forgets the files.
clear_memory_only(m, d) == Outcome(Mem(EmptyDict, << >>), d, "None", FALSE)

\* clear()
clear(m, d) == Outcome(Mem(EmptyDict, << >>), [k \in {} |-> d[k]], "None", FALSE)

\* Path.glob("*" + ext): the name ends with the extension.
EndsWith(name, ext) ==
    /\ Len(name) >= Len(ext)
    /\ SubSeq(name, Len(name) - Len(ext) + 1, Len(name)) = ext

\* The names of the files in cache_dir.
FileNames(d, fmt) == { get_disk_path(fmt, k) : k \in DOMAIN d }

\* get_stats counting the .pkl files only.
get_stats_pkl_only(m, d, fmt, size) ==
    [mem |-> m, disk |-> d,
     stats |-> [memory_entries  |-> Cardinality(DOMAIN m.cache),
                memory_capacity |-> size,
                disk_entries    |->
                    Cardinality({ n \in FileNames(d, fmt) : EndsWith(n, Ext("pickle")) })]]

\* get_stats that drops the least recently used key while it counts.
get_stats_evicting(m, d, fmt, size) ==
    [mem |-> evict_lru(m), disk |-> d,
     stats |-> [memory_entries  |-> Cardinality(DOMAIN m.cache),
                memory_capacity |-> size,
                disk_entries    |-> Cardinality(FileNames(d, fmt))]]

\* get_stats(): the tiers after the call and the counts it reports (the two
\* globs are listed one after the other, so a name is counted once per glob
\* it matches).
get_stats(m, d, fmt, size) ==
    LET pkl == { n \in FileNames(d, fmt) : EndsWith(n, Ext("pickle")) }
        parquet == { n \in FileNames(d, fmt) : EndsWith(n, Ext("parquet")) }
    IN  [mem |-> m, disk |-> d,
         stats |-> [memory_entries  |-> Cardinality(DOMAIN m.cache),
                    memory_capacity |-> size,
                    disk_entries    |-> Cardinality(pkl) + Cardinality(parquet)]]

\* ------------------------------------------------------------- the state
\* The locals of a thread that runs no call.
NoCall == [op |-> "none", key |-> NoKey, val |-> "none", dsk |-> FALSE, lru |-> NoKey]

Patterns == { <<"a">>, <<"s">>, <<"p">> }

\* The call took no arguments of a wrapped function / returned no statistics.
NoArgs == << >>
NoStats == [memory_entries |-> 0, memory_capacity |-> 0, disk_entries |-> 0]

\* A call record: the operation, its arguments, the outcome of its disk access,
\* what it returned or raised, and the keys that left the memory tier.
Call(op, k, v, dsk, fault, r, x, n, ev) ==
    [op |-> op, key |-> k, val |-> v, disk |-> dsk, fault |-> fault,
     ret |-> r, raised |-> x, count |-> n, evicted |-> ev,
     args |-> NoArgs, again |-> FALSE, stats |-> NoStats]

Left(m) == (DOMAIN memory_cache) \ (DOMAIN m.cache)

\* latest without the keys that are in no tier.
PruneLatest(l, m, d) ==
    IF history
    THEN [k \in (DOMAIN l) \cap ((DOMAIN m.cache) \cup (DOMAIN d)) |-> l[k]]
    ELSE EmptyDict

\* The recency records keep the keys that are still in a tier.
Prune(s, m, d) ==
    IF history THEN Restrict(s, (DOMAIN m.cache) \cup (DOMAIN d)) ELSE << >>

CurMem == Mem(memory_cache, memory_access_order)

\* self._memory_size = memory_size or cache_settings.memory_size: an argument
\* of None or 0 gives the default, any other integer is taken as it is.
memory_size_or_default(arg) == IF arg = 0 THEN DefaultMemorySize ELSE arg

\* The memory_size arguments of the constructor: a negative one, none (0
\* stands for None as well) and a positive one.
CtorMemorySizes == { -1, 0, 1 }

\* The fields of a new manager other than its capacity.
\* AsyncDataLoader.__init__: no result, no future, a running executor.
InitLoader ==
    /\ loader_results = EmptyDict
    /\ loader_futures = EmptyDict
    /\ loader_tasks = << >>
    /\ executor_shutdown = FALSE
    /\ cleared = {}

InitFields(h) ==
    /\ disk_format \in Formats
    /\ memory_cache = EmptyDict
    /\ memory_access_order = << >>
    /\ disk = [k \in {} |-> [content |-> "plain", mtime |-> 0]]
    /\ now = 0
    /\ last = Call("init", NoKey, "none", FALSE, "none", "None", FALSE, 0, {})
    /\ touched = << >>
    /\ latest = EmptyDict
    /\ history = h
    /\ pc = [t \in Threads |-> "idle"]
    /\ loc = [t \in Threads |-> NoCall]
    /\ InitLoader

InitState(h) == memory_size \in MemorySizes /\ InitFields(h)

\* A manager as constructed, under either disk format.
Init == InitState(FALSE)

\* The same with the recency and latest-set history recorded, under the
\* default disk format.
InitHistory == InitState(TRUE) /\ disk_format = "pickle"

Returned == last.ret # "hang"

Get(k, rf) ==
    /\ Returned
    /\ rf # "none" => k \notin DOMAIN memory_cache /\ is_disk_cache_valid(disk, k, now)
    /\ LET o == get(CurMem, disk, disk_format, now, k, rf)
           hit == k \in DOMAIN o.mem.cache /\ ~o.raised /\ o.ret \in Values
       IN  /\ memory_cache' = o.mem.cache
           /\ memory_access_order' = o.mem.order
           /\ disk' = o.disk
           /\ last' = Call("get", k, "none", FALSE, rf, o.ret, o.raised, 0, Left(o.mem))
           /\ touched' = Prune(IF hit THEN Bump(touched, k) ELSE touched, o.mem, o.disk)
           /\ latest' = PruneLatest(latest, o.mem, o.disk)
    /\ UNCHANGED << memory_size, disk_format, now, history, pc, loc, loader >>

Set(k, v, dsk, fault) ==
    /\ Returned
    /\ ~dsk => fault = "none"
    /\ dsk => k \in DiskKeys
    /\ LET o == set(CurMem, disk, disk_format, now, k, v, dsk, fault)
       IN  /\ memory_cache' = o.mem.cache
           /\ memory_access_order' = o.mem.order
           /\ disk' = o.disk
           /\ last' = Call("set", k, v, dsk, fault, o.ret, o.raised, 0, Left(o.mem) \ {k})
           /\ touched' = Prune(Bump(touched, k), o.mem, o.disk)
           /\ latest' = PruneLatest(DictSet(latest, k, v), o.mem, o.disk)
    /\ UNCHANGED << memory_size, disk_format, now, history, pc, loc, loader >>

Invalidate(k) ==
    /\ Returned
    /\ LET o == invalidate(CurMem, disk, k)
       IN  /\ memory_cache' = o.mem.cache
           /\ memory_access_order' = o.mem.order
           /\ disk' = o.disk
           /\ last' = Call("invalidate", k, "none", FALSE, "none", o.ret, o.raised,
                           Cardinality((DOMAIN disk) \ (DOMAIN o.disk)), Left(o.mem))
           /\ touched' = Prune(touched, o.mem, o.disk)
           /\ latest' = PruneLatest(latest, o.mem, o.disk)
    /\ UNCHANGED << memory_size, disk_format, now, history, pc, loc, loader >>

InvalidatePattern(p) ==
    /\ Returned
    /\ LET o == invalidate_pattern(CurMem, disk, disk_format, p)
       IN  /\ memory_cache' = o.mem.cache
           /\ memory_access_order' = o.mem.order
           /\ disk' = o.disk
           /\ last' = Call("invalidate_pattern", p, "none", FALSE, "none", "count",
                           FALSE, o.count, {})
           /\ touched' = Prune(touched, o.mem, o.disk)
           /\ latest' = PruneLatest(latest, o.mem, o.disk)
    /\ UNCHANGED << memory_size, disk_format, now, history, pc, loc, loader >>

Clear ==
    /\ Returned
    /\ LET o == clear(CurMem, disk)
       IN  /\ memory_cache' = o.mem.cache
           /\ memory_access_order' = o.mem.order
           /\ disk' = o.disk
           /\ last' = Call("clear", NoKey, "none", FALSE, "none", o.ret, o.raised,
                           Cardinality((DOMAIN disk) \ (DOMAIN o.disk)), Left(o.mem))
           /\ touched' = << >>
           /\ latest' = EmptyDict
    /\ UNCHANGED << memory_size, disk_format, now, history, pc, loc, loader >>

GetStats ==
    /\ Returned
    /\ LET o == get_stats(CurMem, disk, disk_format, memory_size)
       IN  /\ memory_cache' = o.mem.cache
           /\ memory_access_order' = o.mem.order
           /\ disk' = o.disk
           /\ last' = [Call("get_stats", NoKey, "none", FALSE, "none", "stats", FALSE,
                            0, Left(o.mem)) EXCEPT !.stats = o.stats]
    /\ UNCHANGED << memory_size, disk_format, now, touched, latest, history, pc, loc, loader >>

\* The memory tier is emptied by hand (the test does so to force a disk read).
DropMemory ==
    /\ Returned
    /\ memory_cache # EmptyDict
    /\ memory_cache' = EmptyDict
    /\ memory_access_order' = << >>
    /\ last' = IF last.op = "set"
               THEN Call("drop_memory", last.key, last.val, last.disk, last.fault,
                         "None", FALSE, 0, {})
               ELSE Call("drop_memory", NoKey, "none", FALSE, "none", "None", FALSE, 0, {})
    /\ touched' = Prune(touched, Mem(EmptyDict, << >>), disk)
    /\ latest' = PruneLatest(latest, Mem(EmptyDict, << >>), disk)
    /\ UNCHANGED << memory_size, disk_format, disk, now, history, pc, loc, loader >>

\* A day passes.
Tick ==
    /\ Returned
    /\ now < MaxTime
    /\ now' = now + 1
    /\ last' = Call("tick", NoKey, "none", FALSE, "none", "None", FALSE, 0, {})
    /\ UNCHANGED << memory_size, disk_format, memory_cache, memory_access_order,
                    disk, touched, latest, history, pc, loc, loader >>

\* Something outside the manager leaves unreadable bytes in the file of k.
CorruptFile(k, c) ==
    /\ Returned
    /\ disk' = DictSet(disk, k, [content |-> c, mtime |-> now])
    /\ last' = Call("corrupt", k, "none", FALSE, "none", "None", FALSE, 0, {})
    /\ UNCHANGED << memory_size, disk_format, memory_cache, memory_access_order,
                    now, touched, latest, history, pc, loc, loader >>

Next ==
    \/ \E k \in Keys, rf \in { "none", "OSError" } : Get(k, rf)
    \/ \E k \in Keys, v \in Values, dsk \in BOOLEAN, fault \in WriteFaults(disk_format) :
          Set(k, v, dsk, fault)
    \/ \E k \in Keys : Invalidate(k)
    \/ \E p \in Patterns : InvalidatePattern(p)
    \/ Clear
    \/ GetStats
    \/ DropMemory
    \/ Tick
    \/ \E k \in DiskKeys, c \in CorruptKinds(disk_format) : CorruptFile(k, c)

Spec == Init /\ [][Next]_vars

\* The operations of the manager alone, with the history recorded.
NextHistory ==
    \/ \E k \in Keys, rf \in { "none", "OSError" } : Get(k, rf)
    \/ \E k \in Keys, v \in Values, dsk \in BOOLEAN, fault \in WriteFaults(disk_format) :
          Set(k, v, dsk, fault)
    \/ \E k \in Keys : Invalidate(k)
    \/ \E p \in Patterns : InvalidatePattern(p)
    \/ Clear

SpecHistory == InitHistory /\ [][NextHistory]_vars

\* A manager constructed with any memory_size argument, under the default
\* disk format.
InitSizes ==
    /\ memory_size \in { memory_size_or_default(arg) : arg \in CtorMemorySizes }
    /\ InitFields(FALSE)
    /\ disk_format = "pickle"

SpecSizes == InitSizes /\ [][Next]_vars

\* ------------------------------------------------------------ decorators
\* The wrapped function of the tests, get_data(season), under
\* @cached_dataframe("test"); a season is a small integer.
KeyPrefix == "test"
\* The same prefix, character by character, as the pattern given to
\* invalidate_on_update.
KeyPrefixPattern == << "t", "e", "s", "t" >>
FuncName == "get_data"
CallArgs == { << 1 >>, << 2 >> }

\* What the body of a wrapped function returns: a table of Values or an empty
\* DataFrame.
Results == Values \cup { "emptyframe" }

\* str(args) of _generate_key: the prefix, the function name and the call's
\* arguments, in order (there are no keyword arguments).
KeyData(prefix, fname, a) == << prefix, fname >> \o a

\* hashlib.md5(...).hexdigest(): one hexadecimal digest per input.
Md5(key_data) ==
    CASE key_data = << KeyPrefix, FuncName, 1 >> -> << "a", "1" >>
      [] key_data = << KeyPrefix, FuncName, 2 >> -> << "a", "2" >>
      [] OTHER                                   -> << "s" >>

\* _generate_key
generate_key(prefix, fname, a) == Md5(KeyData(prefix, fname, a))

Wrapped(m, d, r, x, n) == [mem |-> m, disk |-> d, ret |-> r, raised |-> x, calls |-> n]

\* The wrapper of cached_dataframe running the body on every call.
cached_dataframe_runs_always(m, d, fmt, t, key, r, dsk, fault) ==
    IF r \in Values
    THEN LET st == set(m, d, fmt, t, key, r, dsk, fault)
         IN  Wrapped(st.mem, st.disk, IF st.raised THEN st.ret ELSE r, st.raised, 1)
    ELSE Wrapped(m, d, r, FALSE, 1)

\* The wrapper of cached_dataframe, called under `key` with a body that would
\* return r: the tiers after the call, what the call returns or raises, and
\* how many times the body ran.
cached_dataframe(m, d, fmt, t, key, r, dsk, fault) ==
    LET cached == get(m, d, fmt, t, key, "none")
    IN  IF cached.raised
        THEN Wrapped(cached.mem, cached.disk, cached.ret, TRUE, 0)
        ELSE IF cached.ret # "None"
        THEN Wrapped(cached.mem, cached.disk, cached.ret, FALSE, 0)
        ELSE IF r \in Values
        THEN LET st == set(cached.mem, cached.disk, fmt, t, key, r, dsk, fault)
             IN  Wrapped(st.mem, st.disk, IF st.raised THEN st.ret ELSE r, st.raised, 1)
        ELSE Wrapped(cached.mem, cached.disk, r, FALSE, 1)

\* The wrapper of invalidate_on_update invalidating in a finally clause.
invalidate_on_update_finally(m, d, fmt, p, body) ==
    LET o == invalidate_pattern(m, d, fmt, p)
    IN  Wrapped(o.mem, o.disk, body, body = "BodyError", 1)

\* The wrapper of invalidate_on_update(p) around a body that returns
\* "result" or raises "BodyError": the tiers after the call, what the call
\* returns or raises, and how many times invalidate_pattern was called.
invalidate_on_update(m, d, fmt, p, body) ==
    IF body = "BodyError"
    THEN Wrapped(m, d, body, TRUE, 0)
    ELSE LET o == invalidate_pattern(m, d, fmt, p)
         IN  Wrapped(o.mem, o.disk, body, FALSE, 1)

\* A call get_data(*a) of the wrapped function whose body would return r.
CachedCall(a, r, dsk, fault) ==
    /\ Returned
    /\ fault # "none" => dsk /\ r \in Values
    /\ LET key == generate_key(KeyPrefix, FuncName, a)
           o == cached_dataframe(CurMem, disk, disk_format, now, key, r, dsk, fault)
       IN  /\ memory_cache' = o.mem.cache
           /\ memory_access_order' = o.mem.order
           /\ disk' = o.disk
           /\ last' = [Call("cached_call", key, IF o.calls = 1 THEN r ELSE "none",
                            dsk, fault, o.ret, o.raised, o.calls, Left(o.mem) \ { key })
                          EXCEPT !.args = a,
                                 !.again = /\ last.op = "cached_call"
                                           /\ last.args = a
                                           /\ ~last.raised
                                           /\ last.ret \in Values]
    /\ UNCHANGED << memory_size, disk_format, now, touched, latest, history, pc, loc, loader >>

\* A call of a function wrapped by invalidate_on_update(p).
UpdateCall(p, body) ==
    /\ Returned
    /\ LET o == invalidate_on_update(CurMem, disk, disk_format, p, body)
       IN  /\ memory_cache' = o.mem.cache
           /\ memory_access_order' = o.mem.order
           /\ disk' = o.disk
           /\ last' = Call("update_call", p, body, FALSE, "none", o.ret, o.raised,
                           o.calls, Left(o.mem))
    /\ UNCHANGED << memory_size, disk_format, now, touched, latest, history, pc, loc, loader >>

NextDecorators ==
    \/ \E a \in CallArgs, r \in Results, dsk \in BOOLEAN,
          fault \in WriteFaults(disk_format) : CachedCall(a, r, dsk, fault)
    \/ \E p \in Patterns \cup { KeyPrefixPattern }, body \in { "result", "BodyError" } :
          UpdateCall(p, body)
    \/ Clear
    \/ Tick

SpecDecorators == Init /\ [][NextDecorators]_vars

\* --------------------------------------------------------------- threads
\* Several threads call get, set and invalidate on one manager.  The manager
\* takes no lock, so the calls interleave between any two operations on the
\* dict, the list or a file; each such operation is one step.
ThreadKeys == DiskKeys
ThreadValues == { "plain" }

InitThreads == InitState(FALSE) /\ disk_format = "pickle"

Frame == << memory_size, disk_format, now, last, touched, latest, history,
            loader >>

\* Under threads `last` follows the latest invalidate(k) that began while no
\* set(k, .) was under way: "invalidate_begin" from its entry, "invalidate"
\* once it has returned, and "set" as soon as a set(k, .) is entered.
Watch(op, k) == Call(op, k, "none", FALSE, "none", "None", FALSE, 0, {})

SetUnderWay(k) == \E u \in Threads : loc[u].op = "set" /\ loc[u].key = k

Goto(t, p) == pc' = [pc EXCEPT ![t] = p]

\* The call of thread t ends: it returns or its exception leaves the call.
Return(t) == pc' = [pc EXCEPT ![t] = "idle"] /\ loc' = [loc EXCEPT ![t] = NoCall]

\* A thread enters get(k), set(k, v, dsk) or invalidate(k).
Start(t, op, k, v, dsk) ==
    /\ pc[t] = "idle"
    /\ op = "set" \/ (v = "none" /\ ~dsk)
    /\ op = "set" => v \in ThreadValues
    /\ pc' = [pc EXCEPT ![t] = CASE op = "get" -> "g_in_cache"
                                 [] op = "set" -> "m_loop"
                                 [] OTHER      -> "i_pop"]
    /\ loc' = [loc EXCEPT ![t] = [op |-> op, key |-> k, val |-> v, dsk |-> dsk,
                                  lru |-> NoKey]]
    /\ last' = IF op = "invalidate" /\ ~SetUnderWay(k)
               THEN Watch("invalidate_begin", k)
               ELSE IF op = "set" /\ last.key = k
                       /\ last.op \in { "invalidate_begin", "invalidate" }
               THEN Watch("set", k)
               ELSE last
    /\ UNCHANGED << memory_cache, memory_access_order, disk, memory_size,
                    disk_format, now, touched, latest, history,
                   loader >>

\* get: if key in self._memory_cache
GetInCache(t) ==
    /\ pc[t] = "g_in_cache"
    /\ Goto(t, IF loc[t].key \in DOMAIN memory_cache THEN "g_in_order" ELSE "d_exists")
    /\ UNCHANGED << memory_cache, memory_access_order, disk, loc, Frame >>

\* get, _set_memory, invalidate: if key in self._memory_access_order
InOrder(t) ==
    /\ pc[t] \in { "g_in_order", "m_in_order", "i_in_order" }
    /\ Goto(t, IF loc[t].key \in Range(memory_access_order)
               THEN CASE pc[t] = "g_in_order" -> "g_remove"
                      [] pc[t] = "m_in_order" -> "m_remove"
                      [] OTHER                -> "i_remove"
               ELSE CASE pc[t] = "g_in_order" -> "g_append"
                      [] pc[t] = "m_in_order" -> "m_append"
                      [] OTHER                -> "i_unlink")
    /\ UNCHANGED << memory_cache, memory_access_order, disk, loc, Frame >>

\* self._memory_access_order.remove(key): ValueError when another thread has
\* removed the key since the test.
OrderRemove(t) ==
    /\ pc[t] \in { "g_remove", "m_remove", "i_remove" }
    /\ IF loc[t].key \in Range(memory_access_order)
       THEN /\ memory_access_order' = ListRemove(memory_access_order, loc[t].key)
            /\ Goto(t, CASE pc[t] = "g_remove" -> "g_append"
                         [] pc[t] = "m_remove" -> "m_append"
                         [] OTHER              -> "i_unlink")
            /\ UNCHANGED loc
       ELSE /\ Return(t)
            /\ UNCHANGED memory_access_order
    /\ UNCHANGED << memory_cache, disk, Frame >>

\* self._memory_access_order.append(key), and the return of _set_memory
OrderAppend(t) ==
    /\ pc[t] \in { "g_append", "m_append" }
    /\ memory_access_order' = Append(memory_access_order, loc[t].key)
    /\ IF pc[t] = "g_append" THEN Goto(t, "g_return") /\ UNCHANGED loc
       ELSE IF loc[t].op = "set" /\ loc[t].dsk THEN Goto(t, "w_open") /\ UNCHANGED loc
       ELSE Return(t)
    /\ UNCHANGED << memory_cache, disk, Frame >>

\* get: return self._memory_cache[key] (KeyError when the key has left)
GetReturn(t) ==
    /\ pc[t] = "g_return"
    /\ Return(t)
    /\ UNCHANGED << memory_cache, memory_access_order, disk, Frame >>

\* _is_disk_cache_valid: path.exists()
DiskExists(t) ==
    /\ pc[t] = "d_exists"
    /\ IF loc[t].key \in DOMAIN disk THEN Goto(t, "d_stat") /\ UNCHANGED loc
       ELSE Return(t)
    /\ UNCHANGED << memory_cache, memory_access_order, disk, Frame >>

\* _is_disk_cache_valid: path.stat() and the age test; when the file has been
\* removed since exists(), stat() raises FileNotFoundError and the call ends
DiskStat(t) ==
    /\ pc[t] = "d_stat"
    /\ IF is_disk_cache_valid(disk, loc[t].key, now)
       THEN Goto(t, "d_read") /\ UNCHANGED loc
       ELSE Return(t)
    /\ UNCHANGED << memory_cache, memory_access_order, disk, Frame >>

\* get: open and read the file; a missing file is the OSError of open
DiskRead(t) ==
    /\ pc[t] = "d_read"
    /\ LET k == loc[t].key
           exc == IF k \notin DOMAIN disk THEN "OSError"
                  ELSE ReadError(disk_format, disk[k].content)
       IN  IF exc = "none"
           THEN /\ loc' = [loc EXCEPT ![t].val = Decode(disk_format, disk[k].content)]
                /\ Goto(t, "m_loop")
           ELSE IF Caught(exc, ReadHandlers)
           THEN Goto(t, "d_unlink") /\ UNCHANGED loc
           ELSE Return(t)
    /\ UNCHANGED << memory_cache, memory_access_order, disk, Frame >>

\* get, invalidate: disk_path.unlink(missing_ok=True)
Unlink(t) ==
    /\ pc[t] \in { "d_unlink", "i_unlink" }
    /\ disk' = DictPop(disk, loc[t].key)
    /\ Return(t)
    /\ last' = IF pc[t] = "i_unlink" /\ last.op = "invalidate_begin"
                  /\ last.key = loc[t].key
               THEN Watch("invalidate", loc[t].key)
               ELSE last
    /\ UNCHANGED << memory_cache, memory_access_order, memory_size, disk_format,
                    now, touched, latest, history,
                   loader >>

\* _set_memory: while len(self._memory_cache) >= self._memory_size
LoopTest(t) ==
    /\ pc[t] = "m_loop"
    /\ Goto(t, IF Cardinality(DOMAIN memory_cache) >= memory_size
               THEN "e_test" ELSE "m_store")
    /\ UNCHANGED << memory_cache, memory_access_order, disk, loc, Frame >>

\* _evict_lru: if self._memory_access_order
EvictTest(t) ==
    /\ pc[t] = "e_test"
    /\ Goto(t, IF memory_access_order # << >> THEN "e_pop_order" ELSE "m_loop")
    /\ UNCHANGED << memory_cache, memory_access_order, disk, loc, Frame >>

\* _evict_lru: lru_key = self._memory_access_order.pop(0) (IndexError when
\* another thread has emptied the list since the test)
EvictPopOrder(t) ==
    /\ pc[t] = "e_pop_order"
    /\ IF memory_access_order # << >>
       THEN /\ loc' = [loc EXCEPT ![t].lru = Head(memory_access_order)]
            /\ memory_access_order' = Tail(memory_access_order)
            /\ Goto(t, "e_pop_cache")
       ELSE /\ Return(t)
            /\ UNCHANGED memory_access_order
    /\ UNCHANGED << memory_cache, disk, Frame >>

\* _evict_lru: self._memory_cache.pop(lru_key, None)
EvictPopCache(t) ==
    /\ pc[t] = "e_pop_cache"
    /\ memory_cache' = DictPop(memory_cache, loc[t].lru)
    /\ loc' = [loc EXCEPT ![t].lru = NoKey]
    /\ Goto(t, "m_loop")
    /\ UNCHANGED << memory_access_order, disk, Frame >>

\* _set_memory: self._memory_cache[key] = data
Store(t) ==
    /\ pc[t] = "m_store"
    /\ memory_cache' = DictSet(memory_cache, loc[t].key, loc[t].val)
    /\ Goto(t, "m_in_order")
    /\ UNCHANGED << memory_access_order, disk, loc, Frame >>

\* set: open(disk_path, "wb") creates or truncates the file
WriteOpen(t) ==
    /\ pc[t] = "w_open"
    /\ disk' = DictSet(disk, loc[t].key, [content |-> "empty", mtime |-> now])
    /\ Goto(t, "w_dump")
    /\ UNCHANGED << memory_cache, memory_access_order, loc, Frame >>

\* set: pickle.dump(data, f) has written part of its bytes to the file
WritePartial(t) ==
    /\ pc[t] = "w_dump"
    /\ loc[t].key \in DOMAIN disk
    /\ disk[loc[t].key].content = "empty"
    /\ disk' = DictSet(disk, loc[t].key, [content |-> "truncated", mtime |-> now])
    /\ UNCHANGED << memory_cache, memory_access_order, pc, loc, Frame >>

\* set: pickle.dump(data, f) and the close of the file; the bytes of a file
\* that was unlinked in the meantime are lost
WriteDump(t) ==
    /\ pc[t] = "w_dump"
    /\ disk' = IF loc[t].key \in DOMAIN disk
               THEN DictSet(disk, loc[t].key,
                            [content |-> Encode(disk_format, loc[t].val), mtime |-> now])
               ELSE disk
    /\ Return(t)
    /\ UNCHANGED << memory_cache, memory_access_order, Frame >>

\* invalidate: self._memory_cache.pop(key, None)
InvalidatePop(t) ==
    /\ pc[t] = "i_pop"
    /\ memory_cache' = DictPop(memory_cache, loc[t].key)
    /\ Goto(t, "i_in_order")
    /\ UNCHANGED << memory_access_order, disk, loc, Frame >>

ThreadStep(t) ==
    \/ \E op \in { "get", "set", "invalidate" }, k \in ThreadKeys,
          v \in ThreadValues \cup { "none" }, dsk \in BOOLEAN : Start(t, op, k, v, dsk)
    \/ GetInCache(t)
    \/ InOrder(t)
    \/ OrderRemove(t)
    \/ OrderAppend(t)
    \/ GetReturn(t)
    \/ DiskExists(t)
    \/ DiskStat(t)
    \/ DiskRead(t)
    \/ Unlink(t)
    \/ LoopTest(t)
    \/ EvictTest(t)
    \/ EvictPopOrder(t)
    \/ EvictPopCache(t)
    \/ Store(t)
    \/ WriteOpen(t)
    \/ WritePartial(t)
    \/ WriteDump(t)
    \/ InvalidatePop(t)

NextThreads == \E t \in Threads : ThreadStep(t)

SpecThreads == InitThreads /\ [][NextThreads]_vars

\* One thread (or process) writes with set(k, v, disk=True) while another
\* reads with get(k); nothing else touches the cache.
Writer == "t1"
Reader == "t2"

ReaderStart(t, op, k, v, dsk) ==
    /\ \/ t = Writer /\ op = "set" /\ dsk
       \/ t = Reader /\ op = "get"
    /\ Start(t, op, k, v, dsk)

ReaderStep(t) ==
    \/ \E op \in { "get", "set" }, k \in ThreadKeys,
          v \in ThreadValues \cup { "none" }, dsk \in BOOLEAN : ReaderStart(t, op, k, v, dsk)
    \/ GetInCache(t)
    \/ InOrder(t)
    \/ OrderRemove(t)
    \/ OrderAppend(t)
    \/ GetReturn(t)
    \/ DiskExists(t)
    \/ DiskStat(t)
    \/ DiskRead(t)
    \/ Unlink(t)
    \/ LoopTest(t)
    \/ EvictTest(t)
    \/ EvictPopOrder(t)
    \/ EvictPopCache(t)
    \/ Store(t)
    \/ WriteOpen(t)
    \/ WritePartial(t)
    \/ WriteDump(t)

NextReaders == \E t \in Threads : ReaderStep(t)

SpecReaders == InitThreads /\ [][NextReaders]_vars

\* ---------------------------------------------------------- async loader
\* Keys of loads; the empty string is a key like any other to start_loading.
LoaderKeys == { "", "k1" }

\* What a load function does when it is run: return a table or raise.
LoaderFuncs == { "returns_df", "raises" }

Run(func) ==
    IF func = "returns_df" THEN [ok |-> TRUE, value |-> "df"]
    ELSE [ok |-> FALSE, value |-> "boom"]

LoadingStates == { "idle", "loading", "success", "error" }

\* progress is kept in tenths.
LoadingResult(state, data, error, progress) ==
    [state |-> state, data |-> data, error |-> error, progress |-> progress]

\* Future.done() of a submitted load.
done(task) == task.status = "done"

Pending(tsk, key) ==
    { i \in 1..Len(tsk) : tsk[i].key = key /\ tsk[i].status \in { "queued", "running" } }

\* start_loading(key, func): returns at once while the future of key is not
\* done; otherwise stores LOADING and then submits, and submit raises once the
\* executor is shut down.
start_loading(res, fut, tsk, shut, key, func) ==
    IF key \in DOMAIN fut /\ ~done(tsk[fut[key]])
    THEN [results |-> res, futures |-> fut, tasks |-> tsk,
          ret |-> "ignored", raised |-> FALSE]
    ELSE LET res2 == DictSet(res, key, LoadingResult("loading", "none", "none", 1))
         IN  IF shut
             THEN [results |-> res2, futures |-> fut, tasks |-> tsk,
                   ret |-> "RuntimeError", raised |-> TRUE]
             ELSE [results |-> res2,
                   futures |-> DictSet(fut, key, Len(tsk) + 1),
                   tasks |-> Append(tsk, [key |-> key, func |-> func,
                                          status |-> "queued"]),
                   ret |-> "None", raised |-> FALSE]

\* _load: the result of func, or the message of what it raised, is stored
\* under the key the load was started with.
load_store(res, task) ==
    LET r == Run(task.func)
    IN  DictSet(res, task.key,
                IF r.ok THEN LoadingResult("success", r.value, "none", 10)
                ELSE LoadingResult("error", "none", r.value, 0))

get_result(res, key) ==
    IF key \in DOMAIN res THEN res[key] ELSE LoadingResult("idle", "none", "none", 0)

is_loading(res, key) == get_result(res, key).state = "loading"

is_complete(res, key) == get_result(res, key).state \in { "success", "error" }

\* clear(key): a is << >> for clear() and << key >> for clear(key); `if key`
\* is false for None and for the empty string.
ClearArgs == { << >> } \cup { << k >> : k \in LoaderKeys }

ClearsOne(a) == a # << >> /\ a[1] # ""

loader_clear(res, fut, a) ==
    IF ClearsOne(a)
    THEN [results |-> DictPop(res, a[1]), futures |-> DictPop(fut, a[1])]
    ELSE [results |-> EmptyDict, futures |-> EmptyDict]

CacheState == << memory_size, disk_format, memory_cache, memory_access_order,
                 disk, now, touched, latest, history, pc, loc >>

LoaderCall(op, key, func, r, x, a) ==
    [Call(op, NoKey, key, FALSE, func, r, x, 0, {}) EXCEPT !.args = a]

StartLoading(key, func) ==
    LET r == start_loading(loader_results, loader_futures, loader_tasks,
                           executor_shutdown, key, func)
    IN  /\ Len(r.tasks) <= MaxLoads
        /\ loader_results' = r.results
        /\ loader_futures' = r.futures
        /\ loader_tasks' = r.tasks
        /\ cleared' = cleared \ { key }
        /\ last' = LoaderCall("start_loading", key, func, r.ret, r.raised, << key >>)
        /\ UNCHANGED << executor_shutdown, CacheState >>

Busy == { i \in 1..Len(loader_tasks) : loader_tasks[i].status \in { "running", "stored" } }

Queued == { i \in 1..Len(loader_tasks) : loader_tasks[i].status = "queued" }

SetStatus(i, s) == loader_tasks' = [loader_tasks EXCEPT ![i].status = s]

\* A free worker takes the oldest queued load.
LoadBegin ==
    /\ Queued # {}
    /\ Cardinality(Busy) < MaxWorkers
    /\ SetStatus(CHOOSE i \in Queued : \A j \in Queued : i <= j, "running")
    /\ UNCHANGED << loader_results, loader_futures, executor_shutdown, cleared,
                    last, CacheState >>

\* The load has run func and stores its outcome.
LoadStore(i) ==
    /\ loader_tasks[i].status = "running"
    /\ loader_results' = load_store(loader_results, loader_tasks[i])
    /\ SetStatus(i, "stored")
    /\ UNCHANGED << loader_futures, executor_shutdown, cleared, last, CacheState >>

\* _load returns or re-raises: the future is done.
LoadDone(i) ==
    /\ loader_tasks[i].status = "stored"
    /\ SetStatus(i, "done")
    /\ UNCHANGED << loader_results, loader_futures, executor_shutdown, cleared,
                    last, CacheState >>

ClearLoader(a) ==
    LET r == loader_clear(loader_results, loader_futures, a)
    IN  /\ loader_results' = r.results
        /\ loader_futures' = r.futures
        /\ cleared' = IF a = << >> THEN LoaderKeys ELSE cleared \cup { a[1] }
        /\ last' = LoaderCall("loader_clear", "none", "none", "None", FALSE, a)
        /\ UNCHANGED << loader_tasks, executor_shutdown, CacheState >>

\* shutdown(): wait=False, loads already submitted still run.
Shutdown ==
    /\ ~executor_shutdown
    /\ executor_shutdown' = TRUE
    /\ last' = LoaderCall("shutdown", "none", "none", "None", FALSE, << >>)
    /\ UNCHANGED << loader_results, loader_futures, loader_tasks, cleared,
                    CacheState >>

NextLoader ==
    \/ \E key \in LoaderKeys, func \in LoaderFuncs : StartLoading(key, func)
    \/ LoadBegin
    \/ \E i \in 1..Len(loader_tasks) : LoadStore(i)
    \/ \E i \in 1..Len(loader_tasks) : LoadDone(i)
    \/ \E a \in ClearArgs : ClearLoader(a)
    \/ Shutdown

\* The loader of the module, beside one cache manager.
InitLoaderOnly == InitThreads /\ memory_size = 1

SpecLoader == InitLoaderOnly /\ [][NextLoader]_vars

\* ================================================================ claims
InMemory(k) == k \in DOMAIN memory_cache

Full == Cardinality(DOMAIN memory_cache) >= memory_size

\* The file of k exists and is younger than the TTL.
FreshFile(k) == k \in DOMAIN disk /\ now - disk[k].mtime < TtlDays

\* The file of k exists and has reached the TTL.
StaleFile(k) == k \in DOMAIN disk /\ now - disk[k].mtime >= TtlDays

\* This step is a call of get / set.
GetStep == last'.op = "get"
SetStep == last'.op = "set" /\ last'.ret # "hang"

MemoryUnchanged ==
    memory_cache' = memory_cache /\ memory_access_order' = memory_access_order

\* C1: with the operations run one at a time, the keys of the memory mapping
\* are exactly the keys of the access order, no key is listed twice, and the
\* mapping holds at most memory_size keys.
C1_MemoryInvariant ==
    /\ DOMAIN memory_cache = Range(memory_access_order)
    /\ NoDup(memory_access_order)
    /\ Cardinality(DOMAIN memory_cache) <= memory_size

\* A full memory tier right after a set that evicted a key.
C1_Witness ==
    /\ last.op = "set"
    /\ last.evicted # {}
    /\ Cardinality(DOMAIN memory_cache) = memory_size
    /\ memory_size = 2

\* C2: with the calls of several threads interleaved, whenever no call is
\* under way the memory mapping holds at most memory_size keys and the access
\* order lists exactly its keys, each once.
C2_ThreadSafe ==
    (\A t \in Threads : pc[t] = "idle") => C1_MemoryInvariant

\* The key in memory whose latest set or get hit is the oldest.
Oldest == Head(Restrict(touched, DOMAIN memory_cache))

FullInsert == SetStep /\ ~InMemory(last'.key) /\ Cardinality(DOMAIN memory_cache) = memory_size

\* The call before this step was a get that hit.
AfterGetHit == last.op = "get" /\ ~last.raised /\ last.ret \in Values

\* C3 (amended): a set of a key that is not in memory, on a full memory,
\* removes exactly one key, the one whose latest set or get hit (from memory
\* or promoted from disk) is the oldest; with memory_size >= 2 the key of a
\* get hit right before the set is not the victim.
C3_LruVictim ==
    [][FullInsert =>
         /\ (DOMAIN memory_cache) \ (DOMAIN memory_cache') = { Oldest }
         /\ (AfterGetHit /\ memory_size >= 2) => last.key \in DOMAIN memory_cache'
      ]_vars

\* C3 as claimed: the get hit protects its key whatever memory_size is.
C3_Original ==
    [][FullInsert =>
         /\ (DOMAIN memory_cache) \ (DOMAIN memory_cache') = { Oldest }
         /\ AfterGetHit => last.key \in DOMAIN memory_cache'
      ]_vars

\* A set has just evicted one key of a memory tier of capacity 2 while an
\* older key, evicted earlier, is still on disk.
C3_Witness ==
    /\ history
    /\ last.op = "set"
    /\ Cardinality(last.evicted) = 1
    /\ memory_size = 2
    /\ Len(touched) = 3

\* C4: get(k) right after set(k, v, disk=True), or after that set and the
\* emptying of the memory tier, returns v (the disk write and the read of
\* the file meeting no I/O fault).
C4_ReadAfterWrite ==
    [][(/\ GetStep
        /\ last'.fault = "none"
        /\ last.op \in { "set", "drop_memory" }
        /\ last.disk
        /\ last.fault = "none"
        /\ last.key = last'.key)
       => (~last'.raised /\ last'.ret = last.val)
      ]_vars

\* C5: a get that returns a value returns the value of the most recent
\* set of its key, as the disk format stores it.
C5_NoStaleValue ==
    (history /\ last.op = "get" /\ ~last.raised /\ last.ret \in Values)
    => /\ last.key \in DOMAIN latest
       /\ last.ret \in { latest[last.key],
                         Decode(disk_format, Encode(disk_format, latest[last.key])) }

\* C6: a get of a key that is not in memory and has a fresh, readable file
\* returns the file's value and leaves the key in memory as the most recently
\* used one, the least recently used key having been evicted if memory was
\* full and no other key touched; with no file or a stale one it returns None
\* and leaves the memory tier as it was.
C6_Promotion ==
    [][(GetStep /\ ~InMemory(last'.key)) =>
         LET k == last'.key
         IN  /\ (FreshFile(k) /\ disk[k].content \in Values /\ last'.fault = "none")
                => /\ ~last'.raised
                   /\ last'.ret = disk[k].content
                   /\ k \in DOMAIN memory_cache'
                   /\ memory_cache'[k] = disk[k].content
                   /\ memory_access_order'[Len(memory_access_order')] = k
                   /\ (DOMAIN memory_cache) \ (DOMAIN memory_cache') =
                         IF Full THEN { Head(memory_access_order) } ELSE {}
                   /\ \A j \in DOMAIN memory_cache :
                         j \in DOMAIN memory_cache' => memory_cache'[j] = memory_cache[j]
             /\ ~FreshFile(k)
                => /\ ~last'.raised
                   /\ last'.ret = "None"
                   /\ MemoryUnchanged
      ]_vars

\* A get has promoted a value from disk and evicted a key for it.
C6_Witness ==
    /\ last.op = "get"
    /\ last.ret \in Values
    /\ last.evicted # {}
    /\ last.key \in DOMAIN memory_cache

\* C7: a get of a key that is not in memory and whose file has reached the
\* TTL returns None and the file is gone after the call.
C7_StaleFileRemoved ==
    [][(GetStep /\ ~InMemory(last'.key) /\ StaleFile(last'.key)) =>
         /\ ~last'.raised
         /\ last'.ret = "None"
         /\ last'.key \notin DOMAIN disk'
      ]_vars

\* C8: a get of a key that is not in memory and whose fresh file cannot be
\* read back returns None without raising, deletes the file and leaves the
\* memory tier as it was.
C8_CorruptFileAbsorbed ==
    [][(/\ GetStep
        /\ ~InMemory(last'.key)
        /\ FreshFile(last'.key)
        /\ disk[last'.key].content \in Corrupt)
       => /\ ~last'.raised
          /\ last'.ret = "None"
          /\ last'.key \notin DOMAIN disk'
          /\ MemoryUnchanged
      ]_vars

\* C9: a set(k, v, disk=True) whose disk write fails returns without raising
\* and leaves k -> v in the memory tier.
C9_WriteFailureAbsorbed ==
    [][(SetStep /\ last'.disk /\ last'.fault # "none") =>
         /\ ~last'.raised
         /\ last'.key \in DOMAIN memory_cache'
         /\ memory_cache'[last'.key] = last'.val
      ]_vars

\* C10: set(k, v, disk) leaves k -> v in the memory tier; with disk false no
\* file changes; with disk true the file of k is the one written (it holds
\* the encoded v, dated now, when the write meets no fault) and no file of
\* another key changes.
C10_SetFrame ==
    [][SetStep =>
         LET k == last'.key
         IN  /\ k \in DOMAIN memory_cache'
             /\ memory_cache'[k] = last'.val
             /\ ~last'.disk => disk' = disk
             /\ (last'.disk /\ last'.fault = "none")
                => /\ k \in DOMAIN disk'
                   /\ disk'[k] = [content |-> Encode(disk_format, last'.val),
                                  mtime |-> now]
             /\ \A j \in Keys \ { k } :
                   /\ j \in DOMAIN disk <=> j \in DOMAIN disk'
                   /\ j \in DOMAIN disk => disk'[j] = disk[j]
      ]_vars

\* A set with disk=False has run on a key whose file holds another value.
C10_Witness ==
    /\ last.op = "set"
    /\ ~last.disk
    /\ last.key \in DOMAIN disk
    /\ disk[last.key].content # last.val

\* What get(k) would return in the state after the step / before it, the
\* file being opened without fault.
GetAfter(k) ==
    get(Mem(memory_cache', memory_access_order'), disk', disk_format, now', k, "none").ret

GetBefore(k) == get(CurMem, disk, disk_format, now, k, "none").ret

\* Key k is in the same tiers, with the same value and file, after the step.
Kept(k) ==
    /\ k \in DOMAIN memory_cache
          => k \in DOMAIN memory_cache' /\ memory_cache'[k] = memory_cache[k]
    /\ k \in DOMAIN disk => k \in DOMAIN disk' /\ disk'[k] = disk[k]

TiersUnchanged == MemoryUnchanged /\ disk' = disk

\* C11: invalidate(k) raises nothing and leaves k out of the memory mapping,
\* the access order and the disk, so that get(k) returns None; every other
\* key stays where it was and get returns for it what it returned before;
\* when k is in no tier the call changes nothing.
C11_Invalidate ==
    [][last'.op = "invalidate" =>
         LET k == last'.key
         IN  /\ ~last'.raised
             /\ k \notin DOMAIN memory_cache'
             /\ k \notin Range(memory_access_order')
             /\ k \notin DOMAIN disk'
             /\ GetAfter(k) = "None"
             /\ \A j \in Keys \ { k } : Kept(j) /\ GetAfter(j) = GetBefore(j)
             /\ (k \notin DOMAIN memory_cache /\ k \notin DOMAIN disk) => TiersUnchanged
      ]_vars

\* An invalidate has removed its key from both tiers and another key is
\* still in memory.
C11_Witness ==
    /\ last.op = "invalidate"
    /\ last.evicted = { last.key }
    /\ last.count = 1
    /\ memory_cache # EmptyDict

\* C12: invalidate_pattern(p) returns the number of keys it removed: the keys
\* containing p that were in memory or on disk, each counted once.
C12_PatternCount ==
    [][last'.op = "invalidate_pattern" =>
         last'.count =
            Cardinality({ k \in (DOMAIN memory_cache) \cup (DOMAIN disk) :
                             Contains(last'.key, k) })
      ]_vars

\* C13: after invalidate_pattern(p) every key that contains p is in no tier,
\* and every key that does not contain p is in the tiers it was in, with the
\* same value and the same file.
C13_PatternFrame ==
    [][last'.op = "invalidate_pattern" =>
         \A k \in Keys :
            IF Contains(last'.key, k)
            THEN k \notin DOMAIN memory_cache' /\ k \notin DOMAIN disk'
                 /\ GetAfter(k) = "None"
            ELSE Kept(k)
      ]_vars

\* C14: with the calls of several threads interleaved, once an invalidate(k)
\* has returned, no set(k, .) was under way when it began or has been entered
\* since, and no call is under way, k is in neither tier and get(k) returns
\* None.
C14_AtomicRemoval ==
    (last.op = "invalidate" /\ \A t \in Threads : pc[t] = "idle")
    => /\ last.key \notin DOMAIN memory_cache
       /\ last.key \notin DOMAIN disk
       /\ get(CurMem, disk, disk_format, now, last.key, "none").ret = "None"

\* Nothing is cached: no key in memory, no key in the order, no file.
Empty ==
    /\ memory_cache = EmptyDict
    /\ memory_access_order = << >>
    /\ DOMAIN disk = {}

\* C15: clear() leaves the memory mapping and the access order empty and no
\* file on disk, and from then on, as long as no set is called (and nothing
\* outside the manager writes a file), the tiers stay empty and every get
\* returns None.
C15_Clear ==
    [][/\ last'.op = "clear" => Empty' /\ \A k \in Keys : GetAfter(k) = "None"
       /\ (Empty /\ last'.op \notin { "set", "corrupt" })
             => Empty' /\ (last'.op = "get" => ~last'.raised /\ last'.ret = "None")
      ]_vars

\* A clear has removed keys from memory and files from disk.
C15_Witness ==
    /\ last.op = "clear"
    /\ last.evicted # {}
    /\ last.count > 0

\* C16: get_stats() reports the number of keys of the memory mapping, the
\* memory_size of the manager and the number of keys that have a file.
C16_Stats ==
    [][last'.op = "get_stats" =>
         last'.stats = [memory_entries  |-> Cardinality(DOMAIN memory_cache),
                        memory_capacity |-> memory_size,
                        disk_entries    |-> Cardinality(DOMAIN disk)]
      ]_vars

\* get_stats has reported 2 memory entries and 2 disk entries.
C16_Witness ==
    /\ last.op = "get_stats"
    /\ last.stats.memory_entries = 2
    /\ last.stats.disk_entries = 2

\* C17: get_stats() leaves the memory mapping, the access order and every
\* file, its modification time included, as they were.
C17_StatsReadOnly ==
    [][last'.op = "get_stats" => TiersUnchanged]_vars

\* get_stats has run on a full memory tier with a file on disk that is no
\* longer fresh.
C17_Witness ==
    /\ last.op = "get_stats"
    /\ Cardinality(DOMAIN memory_cache) = memory_size
    /\ \E k \in DOMAIN disk : StaleFile(k)

Occurrences(s, k) == Len(SelectSeq(s, LAMBDA x : x = k))

\* C18: a set(k, v) right after a set(k, v), neither meeting a write fault,
\* leaves k -> v in memory, the same number of keys in the memory mapping and
\* k as often in the access order as after the first set.
C18_IdempotentSet ==
    [][(/\ SetStep
        /\ last.op = "set"
        /\ last.key = last'.key
        /\ last.val = last'.val
        /\ last.fault = "none"
        /\ last'.fault = "none")
       => /\ last'.key \in DOMAIN memory_cache'
          /\ memory_cache'[last'.key] = last'.val
          /\ GetAfter(last'.key) = last'.val
          /\ Cardinality(DOMAIN memory_cache') = Cardinality(DOMAIN memory_cache)
          /\ Occurrences(memory_access_order', last'.key) =
                Occurrences(memory_access_order, last'.key)
      ]_vars

\* This step is a call of the function wrapped by cached_dataframe.
CachedStep == last'.op = "cached_call"

\* C19: the body of a function wrapped by cached_dataframe runs exactly when
\* the lookup of the call's key misses; a call right after a call with the
\* same arguments that returned a non-empty table does not run the body and
\* returns the same table, the body having run at most once in the two; a
\* call with other arguments has another key and runs the body when that key
\* is not cached.
C19_BodyOnMiss ==
    [][CachedStep =>
         /\ last'.count = 1 <=> GetBefore(last'.key) = "None"
         /\ (/\ last.op = "cached_call"
             /\ last.args = last'.args
             /\ ~last.raised
             /\ last.ret \in Values)
            => /\ last'.count = 0
               /\ last.count + last'.count <= 1
               /\ ~last'.raised
               /\ last'.ret = last.ret
         /\ (last.op = "cached_call" /\ last.args # last'.args)
            => /\ last'.key # last.key
               /\ GetBefore(last'.key) = "None" => last'.count = 1
      ]_vars

\* A wrapped call has returned the table of the call before it, made with the
\* same arguments, without running the body.
C19_Witness ==
    /\ last.op = "cached_call"
    /\ last.again
    /\ last.count = 0
    /\ last.ret \in Values

\* C20: a function wrapped by invalidate_on_update(p) whose body returns
\* calls invalidate_pattern(p) once, on the tiers as the body left them, and
\* returns the body's result; when the body raises, invalidate_pattern is not
\* called, the tiers are as they were and the body's error is raised.
C20_InvalidateOnUpdate ==
    [][last'.op = "update_call" =>
         IF last'.val = "BodyError"
         THEN /\ last'.raised
              /\ last'.ret = "BodyError"
              /\ last'.count = 0
              /\ TiersUnchanged
         ELSE LET o == invalidate_pattern(CurMem, disk, disk_format, last'.key)
              IN  /\ ~last'.raised
                  /\ last'.ret = last'.val
                  /\ last'.count = 1
                  /\ memory_cache' = o.mem.cache
                  /\ memory_access_order' = o.mem.order
                  /\ disk' = o.disk
      ]_vars

\* The body of an updating function has raised while the cache held keys that
\* match its pattern.
C20_Witness ==
    /\ last.op = "update_call"
    /\ last.raised
    /\ \E k \in DOMAIN memory_cache : Contains(last.key, k)
    /\ \E k \in DOMAIN disk : Contains(last.key, k)

\* C25: a set(k, v) of a key that is already in memory removes no other key
\* from memory, also when the memory tier is full.
C25_OverwriteKeepsOthers ==
    [][(SetStep /\ InMemory(last'.key)) =>
         \A j \in DOMAIN memory_cache : j \in DOMAIN memory_cache'
      ]_vars

\* C26: when a function wrapped by invalidate_on_update(P) returns, with P
\* the key_prefix of a cached_dataframe function, the next call of the cached
\* function runs its body, whatever its arguments.
C26_UpdateInvalidatesCached ==
    [][(/\ last'.op = "update_call"
        /\ last'.key = KeyPrefixPattern
        /\ last'.val = "result")
       => \A a \in CallArgs :
             cached_dataframe(Mem(memory_cache', memory_access_order'), disk',
                              disk_format, now', generate_key(KeyPrefix, FuncName, a),
                              "plain", FALSE, "none").calls = 1
      ]_vars

\* C30: every call of get and of set returns or raises: the eviction loop of
\* _set_memory ends, whatever memory_size the manager was constructed with.
C30_Terminates ==
    last.op \in { "get", "set" } => last.ret # "hang"

\* C21: the read of the file in get never finds a partially written file:
\* whenever a thread reads the file of its key, the content is a complete
\* serialized value.
C21_NoPartialRead ==
    [][\A t \in Threads :
          (pc[t] = "d_read" /\ pc'[t] # "d_read" /\ loc[t].key \in DOMAIN disk)
          => disk[loc[t].key].content \notin Corrupt
      ]_vars

\* C27: when the set(k, v, disk=True) of the writer returns, no other set,
\* invalidate, invalidate_pattern or clear having run, the file of k exists
\* and holds the serialized v.
C27_FileHoldsValue ==
    [][(pc[Writer] = "w_dump" /\ pc'[Writer] = "idle") =>
         LET k == loc[Writer].key
         IN  /\ k \in DOMAIN disk'
             /\ disk'[k].content = Encode(disk_format, loc[Writer].val)
      ]_vars

\* C22: a start_loading(key, func) issued while a load for key is in progress
\* is ignored, so that at no time two loads for one key are queued or running.
C22_OneLoadPerKey ==
    \A key \in LoaderKeys : Cardinality(Pending(loader_tasks, key)) <= 1

State(res, key) == get_result(res, key).state

\* The steps of the reported state of key that IDLE -> LOADING -> SUCCESS or
\* ERROR allows: forward along the sequence, back to LOADING by a new load of
\* a completed key, back to IDLE by clear.
Follows(key) ==
    LET s == State(loader_results, key)
        n == State(loader_results', key)
    IN  \/ n = s
        \/ s = "idle" /\ n = "loading"
        \/ s = "loading" /\ n \in { "success", "error" }
        \/ s \in { "success", "error" } /\ n = "loading"
        \/ n = "idle" /\ last'.op = "loader_clear" /\ last' # last

\* What the lifecycle says of the single steps: start_loading that returns
\* leaves the key not IDLE, and a load that ends stores SUCCESS with the data
\* func returned or ERROR with the message of what it raised.
StepOutcomes ==
    /\ (last'.op = "start_loading" /\ last' # last /\ ~last'.raised)
            => State(loader_results', last'.val) # "idle"
    /\ \A i \in 1..Len(loader_tasks) :
            (loader_tasks[i].status = "running" /\ loader_tasks'[i].status = "stored")
            => LET r == Run(loader_tasks[i].func)
                   g == get_result(loader_results', loader_tasks[i].key)
               IN  IF r.ok THEN g.state = "success" /\ g.data = r.value
                   ELSE g.state = "error" /\ g.error = r.value
    /\ \A key \in LoaderKeys :
            /\ is_loading(loader_results', key) <=> State(loader_results', key) = "loading"
            /\ is_complete(loader_results', key)
                   <=> State(loader_results', key) \in { "success", "error" }

\* C23: the state reported for a key follows IDLE -> LOADING -> SUCCESS or
\* ERROR: once start_loading has returned it is not IDLE, a load that ends
\* stores SUCCESS with the data or ERROR with the message, is_loading holds
\* exactly in LOADING and is_complete exactly in SUCCESS or ERROR.
C23_Lifecycle == [][StepOutcomes /\ \A key \in LoaderKeys : Follows(key)]_vars

\* The single steps of C23 alone.
C23_StepOutcomes == [][StepOutcomes]_vars

ClearStep == last'.op = "loader_clear" /\ last' # last

\* C24: clear(key) resets that key to IDLE and leaves the result of every
\* other key unchanged, for every key string; clear() resets every key.
C24_ClearFrame ==
    [][ClearStep =>
        IF last'.args = << >>
        THEN \A key \in LoaderKeys : State(loader_results', key) = "idle"
        ELSE /\ State(loader_results', last'.args[1]) = "idle"
             /\ \A key \in LoaderKeys \ { last'.args[1] } :
                    get_result(loader_results', key) = get_result(loader_results, key)]_vars

\* C28: after clear(key) has returned, get_result(key) stays IDLE until the
\* next start_loading(key), also when a load of key was still queued or
\* running and ends afterwards.
C28_ClearedStaysIdle ==
    \A key \in cleared : State(loader_results, key) = "idle"

\* C29: whenever the loader reports LOADING for a key, a load of that key is
\* queued or running, before and after shutdown().
C29_LoadingHasLoad ==
    \A key \in LoaderKeys :
        is_loading(loader_results, key) => Pending(loader_tasks, key) # {}

====
